---- MODULE Spec2Model ----
(***************************************************************************)
(* steamstatus_bot: the polling / diff / notify engine of                  *)
(* steam_status_bot.py (TelegramBot, SteamStatusFinder,                    *)
(* UbiServerStatusFinder).                                                 *)
(*                                                                         *)
(* Python dictionaries are objects: run_query returns a reference to the   *)
(* finder's own dictionary, so the model keeps a heap of dictionaries      *)
(* (dicts) and references into it.                                         *)
(***************************************************************************)
EXTENDS Integers, Sequences, FiniteSets, TLC

\* ------------------------------------------------------------------ bounds
\* The clock is observed every TimeStep seconds, up to MaxTime seconds.
TimeStep == 30
MaxTime == 90
\* The UbisoftServerStatusPoller is called up to MaxCalls times.
MaxCalls == 4

\* ----------------------------------------------------------- configuration
\* config['player_ids'] in iteration order.
PlayerOrder == <<"alice", "bob">>
Players == {PlayerOrder[i] : i \in 1..Len(PlayerOrder)}

\* config['game_ids'] in iteration order; "csgo" has no 'ubi_id'.
GameOrder == <<"r6", "div", "csgo">>
Games == {GameOrder[i] : i \in 1..Len(GameOrder)}
steam_id == [g \in Games |-> CASE g = "r6" -> "359550"
                               [] g = "div" -> "365590"
                               [] OTHER -> "730"]
HasUbiId(g) == g \in {"r6", "div"}
UbiGames == {g \in Games : HasUbiId(g)}

\* config['ubipoller_interv_min'], in minutes.
ubipoller_interv_min == 1

\* ------------------------------------------------------------------ values
None == "None"
Absent == "<absent>"
Fail == "<raises>"
NoGameId == "<no gameid>"
NoRef == "<unset>"

\* 'Status' labels of the Ubisoft game-status API.
Statuses == {"online", "interrupted"}
\* What one request of run_query can do: answer a label, or raise.
UbiOutcomes == [UbiGames -> Statuses \cup {Fail}]

\* 'gameid' of a player summary: missing, a tracked game's ("r6", "div"), or
\* another game's.
RawGameIds == {NoGameId, "359550", "365590", "440"}
\* What the requests of _get_user_status can do, one per player: answer the
\* player's summary, or raise (and then _get_user_status raises).
SteamRaises(steam) == \E user \in Players : steam[user] = Fail
SteamOutcomes ==
  [Players -> RawGameIds]
  \cup {steam \in [Players -> {NoGameId, Fail}] : SteamRaises(steam)}

Presence == [is_pl : BOOLEAN, game : Games \cup {None}]
NoPresence == [is_pl |-> FALSE, game |-> NoRef]

\* The dictionary objects of the heap; "d0" is the one created at line 312.
Refs == {"d0", "d1", "d2"}
EmptyDict == [g \in Games |-> Absent]
Keys(d) == {g \in Games : d[g] # Absent}

VARIABLES
  phase,              \* "constructed" (lines 49-52 done), "running", "failed"
  now,                \* datetime.now(), seconds since the finder was constructed
  dicts,              \* heap: Refs -> dictionary game -> status label
  ubi_server_status,  \* UbiServerStatusFinder.server_status (a reference)
  last_update,        \* UbiServerStatusFinder._last_update
  is_first_time,      \* UbiServerStatusFinder.is_first_time
  user_status,        \* TelegramBot.user_status
  bot_server_status,  \* TelegramBot.server_status (a reference)
  fetched_at,         \* observer: when each entry of the finder's dict was fetched
  last_fetch,         \* observer: time of the latest completed fetch pass, -1 if none
  observed,           \* observer: the entities some fetch has returned so far
  seen,               \* observer: the snapshots the latest tick (or __init__) got
  last,               \* observer: what the latest operation did
  poller,             \* ubisoft_server_status.py: the UbisoftServerStatusPoller
  threads             \* where the job thread and the handler thread are in run_query

vars == <<phase, now, dicts, ubi_server_status, last_update, is_first_time,
          user_status, bot_server_status, fetched_at, last_fetch, observed, seen,
          last, poller, threads>>

\* -------------------------------------------------------------- formatting
\* f'{user} {verb} playing{game}.\n'
PlayerLine(user, new_status) ==
  <<user,
    IF new_status.is_pl THEN "started" ELSE "stopped",
    "playing",
    IF new_status.is_pl THEN new_status.game ELSE "">>

\* f'Servers for {game} are {new_status}.\n'
ServerLine(game, new_status) == <<"Servers for", game, "are", new_status>>

Lines(msg) == {msg[i] : i \in 1..Len(msg)}

\* ------------------------------------------------------- SteamStatusFinder
\* get_is_playing on the summaries `raw`.
game_ids == [s \in {steam_id[g] : g \in Games} |->
               CHOOSE g \in Games : steam_id[g] = s]

\* Lines 273-275 taking any 'gameid' for a game being played.
get_is_playing_any_game(raw) ==
  [user \in Players |->
     IF raw[user] # NoGameId
       THEN [is_pl |-> TRUE,
             game |-> IF raw[user] \in DOMAIN game_ids
                        THEN game_ids[raw[user]] ELSE None]
       ELSE [is_pl |-> FALSE, game |-> None]]

\* Lines 260-277: is_pl_valid, from the 'gameid' of each player's summary.
get_is_playing(raw) ==
  [user \in Players |->
     IF raw[user] # NoGameId /\ raw[user] \in DOMAIN game_ids
       THEN [is_pl |-> TRUE, game |-> game_ids[raw[user]]]
       ELSE [is_pl |-> FALSE, game |-> None]]

\* --------------------------------------------------- UbiServerStatusFinder
\* Line 335 without "or self.is_first_time".
ShouldFetch_no_first_time(sec_since_last) ==
  sec_since_last > ubipoller_interv_min * 60

\* Line 335 polling only the first time.
ShouldFetch_only_first_time(sec_since_last) == is_first_time

\* Line 335: poll again?
ShouldFetch(sec_since_last) ==
  (sec_since_last > ubipoller_interv_min * 60) \/ is_first_time

\* Lines 337-344: the loop over config['game_ids'], from the i-th game on.
\* acc.dict is self.server_status so far; a request that raises ends the loop
\* with what the earlier iterations already stored.
RECURSIVE FetchLoop(_, _, _)
FetchLoop(i, acc, outcomes) ==
  IF i > Len(GameOrder) THEN acc
  ELSE LET game == GameOrder[i] IN
    IF ~HasUbiId(game) THEN FetchLoop(i + 1, acc, outcomes)
    ELSE IF outcomes[game] = Fail
      THEN [acc EXCEPT !.raised = TRUE,
                       !.requested = acc.requested \cup {game}]
      ELSE FetchLoop(i + 1,
                     [acc EXCEPT !.dict[game] = outcomes[game],
                                 !.at[game] = now,
                                 !.requested = acc.requested \cup {game},
                                 !.answered = acc.answered \cup {game}],
                     outcomes)

\* Lines 330-348 issuing the requests in the cached branch too.
run_query_cached_fetches(outcomes) ==
  LET sec_since_last == now - last_update
      start == [dict |-> dicts[ubi_server_status], at |-> fetched_at,
                raised |-> FALSE, requested |-> {}, answered |-> {}]
      r == FetchLoop(1, start, outcomes)
  IN [branch |-> IF ShouldFetch(sec_since_last) THEN "fetch" ELSE "cached",
      raised |-> r.raised, dict |-> r.dict, at |-> r.at,
      requested |-> r.requested, answered |-> r.answered,
      first |-> IF r.raised THEN is_first_time ELSE FALSE,
      ret |-> ubi_server_status]

\* Lines 330-348 with is_first_time = False reached by a pass that raised.
run_query_clears_first(outcomes) ==
  LET sec_since_last == now - last_update
      start == [dict |-> dicts[ubi_server_status], at |-> fetched_at,
                raised |-> FALSE, requested |-> {}, answered |-> {}]
  IN IF ShouldFetch(sec_since_last)
       THEN LET r == FetchLoop(1, start, outcomes)
            IN [branch |-> "fetch", raised |-> r.raised, dict |-> r.dict,
                at |-> r.at, requested |-> r.requested, answered |-> r.answered,
                first |-> FALSE,
                ret |-> ubi_server_status]
       ELSE [branch |-> "cached", raised |-> FALSE, dict |-> start.dict,
             at |-> fetched_at, requested |-> {}, answered |-> {},
             first |-> is_first_time,
             ret |-> ubi_server_status]

\* Lines 330-348 returning a copy of self.server_status at line 348.
run_query_returns_copy(outcomes) ==
  LET sec_since_last == now - last_update
      start == [dict |-> dicts[ubi_server_status], at |-> fetched_at,
                raised |-> FALSE, requested |-> {}, answered |-> {}]
      copy == CHOOSE ref \in Refs :
                ref \notin {ubi_server_status, bot_server_status}
  IN IF ShouldFetch(sec_since_last)
       THEN LET r == FetchLoop(1, start, outcomes)
            IN [branch |-> "fetch", raised |-> r.raised, dict |-> r.dict,
                at |-> r.at, requested |-> r.requested, answered |-> r.answered,
                first |-> IF r.raised THEN is_first_time ELSE FALSE,
                ret |-> copy]
       ELSE [branch |-> "cached", raised |-> FALSE, dict |-> start.dict,
             at |-> fetched_at, requested |-> {}, answered |-> {},
             first |-> is_first_time,
             ret |-> copy]

\* run_query at time `now`, the API answering `outcomes`.
\*   branch     "fetch" or "cached"
\*   requested  the games a request was issued for; answered: those answered
\*   raised     urlopen / json.load raised, so run_query did
\*   dict       self.server_status afterwards (mutated in place)
\*   first      self.is_first_time afterwards
\*   ret        the reference returned at line 348 (when not raised)
run_query(outcomes) ==
  LET sec_since_last == now - last_update
      start == [dict |-> dicts[ubi_server_status], at |-> fetched_at,
                raised |-> FALSE, requested |-> {}, answered |-> {}]
  IN IF ShouldFetch(sec_since_last)
       THEN LET r == FetchLoop(1, start, outcomes)
            IN [branch |-> "fetch", raised |-> r.raised, dict |-> r.dict,
                at |-> r.at, requested |-> r.requested, answered |-> r.answered,
                first |-> IF r.raised THEN is_first_time ELSE FALSE,
                ret |-> ubi_server_status]
       ELSE [branch |-> "cached", raised |-> FALSE, dict |-> start.dict,
             at |-> fetched_at, requested |-> {}, answered |-> {},
             first |-> is_first_time,
             ret |-> ubi_server_status]

\* The heap after a run_query that left `r`: the finder's dictionary, and
\* the dictionary object the call returned (the same object, line 348).
HeapAfter(r) ==
  [dicts EXCEPT ![ubi_server_status] = r.dict, ![r.ret] = r.dict]

\* A run_query that was not called.
NoQuery == [branch |-> "none", raised |-> FALSE, dict |-> dicts[ubi_server_status],
            at |-> fetched_at, requested |-> {}, answered |-> {},
            first |-> is_first_time,
            ret |-> ubi_server_status]

\* ------------------------------------------------------------- TelegramBot
\* Line 120 testing the new value alone.
UserChanged_no_baseline(old_status, new_status) == new_status.is_pl

\* Line 120.
UserChanged(old_status, new_status) ==
  ~(new_status.is_pl = old_status.is_pl)

\* Line 134.
ServerChanged(old_status, new_status) == ~(new_status = old_status)

\* Lines 116-124: the lines of the loop over the players, from the i-th on.
RECURSIVE UserLoop(_, _, _)
UserLoop(i, old_all, new_all) ==
  IF i > Len(PlayerOrder) THEN <<>>
  ELSE LET user == PlayerOrder[i] IN
    (IF UserChanged(old_all[user], new_all[user])
       THEN <<PlayerLine(user, new_all[user])>> ELSE <<>>)
    \o UserLoop(i + 1, old_all, new_all)

\* Line 121 left out: the player loop never sets do_display.
UserFlag_never(old_all, new_all) == FALSE

\* Line 121: do_display after the player loop.
UserFlag(old_all, new_all) ==
  \E user \in Players : UserChanged(old_all[user], new_all[user])

\* Line 136: whether the server loop sets do_display.
ServerFlag(old_d, new_d) ==
  \E game \in Keys(new_d) : ServerChanged(old_d[game], new_d[game])

\* Lines 130-136: the lines of the loop over new_server_status.keys(), from
\* the i-th game on; old_d and new_d are the dictionaries the two references
\* point to when the loop runs.
RECURSIVE ServerLoop(_, _, _)
ServerLoop(i, old_d, new_d) ==
  IF i > Len(GameOrder) THEN <<>>
  ELSE LET game == GameOrder[i] IN
    (IF game \in Keys(new_d) /\ ServerChanged(old_d[game], new_d[game])
       THEN <<ServerLine(game, new_d[game])>> ELSE <<>>)
    \o ServerLoop(i + 1, old_d, new_d)

\* self.server_status[game] at line 131 raises KeyError for a missing key.
ServerKeyError(old_d, new_d) == Keys(new_d) \ Keys(old_d) # {}

\* Lines 54-57 with user_status set to "nobody plays" instead of the fetch.
TelegramBot_init_unseeded(steam, outcomes) ==
  IF SteamRaises(steam)
    THEN [raised |-> "steam", steam_ok |-> FALSE,
          user_status |-> user_status, rq |-> NoQuery,
          server_status |-> bot_server_status]
    ELSE LET rq == run_query(outcomes) IN
         [raised |-> IF rq.raised THEN "ubi" ELSE "none", steam_ok |-> TRUE,
          user_status |-> [u \in Players |-> [is_pl |-> FALSE, game |-> None]],
          rq |-> rq,
          server_status |-> IF rq.raised THEN bot_server_status ELSE rq.ret]

\* Lines 54-57, the initial calls of __init__, the APIs answering `steam` and
\* `outcomes`.  raised: which call raised ("none", "steam", "ubi").
TelegramBot_init(steam, outcomes) ==
  IF SteamRaises(steam)
    THEN [raised |-> "steam", steam_ok |-> FALSE,
          user_status |-> user_status, rq |-> NoQuery,
          server_status |-> bot_server_status]
    ELSE LET rq == run_query(outcomes) IN
         [raised |-> IF rq.raised THEN "ubi" ELSE "none", steam_ok |-> TRUE,
          user_status |-> get_is_playing(steam), rq |-> rq,
          server_status |-> IF rq.raised THEN bot_server_status ELSE rq.ret]

\* Lines 110-140, the APIs answering `steam` and `outcomes`.
\*   raised         which call raised: "none", "steam" (line 115), "ubi"
\*                  (line 129) or "KeyError" (line 131)
\*   do_display,msg the value returned at line 140 (when nothing raised)
\*   user_status    self.user_status afterwards
\*   server_status  self.server_status afterwards (a reference)
\*   rq             what the run_query of line 129 did
define_job_queue(steam, outcomes) ==
  IF SteamRaises(steam)
    THEN [raised |-> "steam", steam_ok |-> FALSE, do_display |-> FALSE,
          msg |-> <<>>, user_status |-> user_status, rq |-> NoQuery,
          server_status |-> bot_server_status]
    ELSE
      LET new_user_status_all == get_is_playing(steam)
          user_msg == UserLoop(1, user_status, new_user_status_all)
          rq == run_query(outcomes)
          heap == HeapAfter(rq)
          old_d == heap[bot_server_status]
          new_d == heap[rq.ret]
          server_msg == ServerLoop(1, old_d, new_d)
          msg == user_msg \o server_msg
          do_display == UserFlag(user_status, new_user_status_all)
                        \/ ServerFlag(old_d, new_d)
      IN IF rq.raised
           THEN [raised |-> "ubi", steam_ok |-> TRUE, do_display |-> FALSE,
                 msg |-> <<>>, user_status |-> new_user_status_all, rq |-> rq,
                 server_status |-> bot_server_status]
         ELSE IF ServerKeyError(old_d, new_d)
           THEN [raised |-> "KeyError", steam_ok |-> TRUE, do_display |-> FALSE,
                 msg |-> <<>>, user_status |-> new_user_status_all, rq |-> rq,
                 server_status |-> bot_server_status]
         ELSE [raised |-> "none", steam_ok |-> TRUE, do_display |-> do_display,
               msg |-> msg, user_status |-> new_user_status_all, rq |-> rq,
               server_status |-> rq.ret]

\* Lines 161-172 without the test of do_display.
SendOnTick_always(do_display, msg) == <<msg>>

\* Lines 161-172 of _callback_status: the texts handed to send_message.
SendOnTick(do_display, msg) == IF do_display THEN <<msg>> ELSE <<>>

\* get_status_string, lines 247-258 (personastate and gameextrainfo are not
\* modelled: only whether the summary has a 'gameid').
get_status_string(raw) ==
  [i \in 1..Len(PlayerOrder) |->
     <<PlayerOrder[i], "personastate",
       IF raw[PlayerOrder[i]] # NoGameId THEN "and playing" ELSE "", "">>]

\* get_message, lines 352-353, on the dictionary d.
RECURSIVE MessageLines(_, _)
MessageLines(i, d) ==
  IF i > Len(GameOrder) THEN <<>>
  ELSE (IF GameOrder[i] \in Keys(d)
          THEN <<<<GameOrder[i], "servers are", d[GameOrder[i]], "">>>>
          ELSE <<>>) \o MessageLines(i + 1, d)

\* --------------------------------------------------------------- observers
Entities == Players \cup UbiGames
AllNoPresence == [u \in Players |-> NoPresence]

\* The entities a fetch returned: every player when the Steam call answered,
\* and the games whose request answered.
Fetched(steam_ok, rq) ==
  (IF steam_ok THEN Players ELSE {})
  \cup rq.answered

\* Seconds since the latest completed fetch pass, -1 if there was none.
SinceFetch == IF last_fetch < 0 THEN -1 ELSE now - last_fetch
LastFetchAfter(rq) ==
  IF rq.branch = "fetch" /\ ~rq.raised THEN now ELSE last_fetch

\* Age in seconds of the oldest entry of the dictionary a run_query returned;
\* -1 when none returned (not called, or raised).
RECURSIVE MaxOf(_)
MaxOf(S) == IF S = {} THEN 0
            ELSE LET x == CHOOSE y \in S : TRUE
                     m == MaxOf(S \ {x})
                 IN IF x > m THEN x ELSE m
AgeOf(rq) ==
  IF rq.branch = "none" \/ rq.raised THEN -1
  ELSE MaxOf({now - rq.at[g] : g \in Keys(rq.dict)})

\* The labels the API answered in one run_query.
Answers(rq, outcomes) ==
  [g \in Games |-> IF g \in rq.answered THEN outcomes[g] ELSE Absent]

\* last: what the latest operation did.
\*   op           "init", "tick", "player_status", "server_status"
\*   raised       the call that raised, "none" if the operation completed
\*   do_display, msg   define_job_queue's result
\*   sent         the texts handed to send_message, in order
\*   branch, requested, answers   the operation's run_query
\*   since_fetch  seconds from the latest completed fetch pass to the call
\*   age          age of the oldest entry of the dictionary run_query returned
\*   first_seen   the entities no earlier fetch had returned
\*   raw          the 'gameid' of each summary get_is_playing got
\*   same_user, same_server   the snapshot equals the one the latest tick got
NoOp == [op |-> "none", raised |-> "none", do_display |-> FALSE, msg |-> <<>>,
         sent |-> <<>>, branch |-> "none", requested |-> {},
         answers |-> EmptyDict, since_fetch |-> -1, age |-> -1,
         first_seen |-> {}, same_user |-> FALSE, same_server |-> FALSE,
         raw |-> [u \in Players |-> NoGameId]]

\* What an operation that called the two sources leaves in the observers.
SeenAfter(steam, steam_ok, rq) ==
  [user |-> IF steam_ok THEN get_is_playing(steam) ELSE seen.user,
   server |-> IF rq.branch # "none" /\ ~rq.raised THEN rq.dict ELSE seen.server]

Observe(op, steam, outcomes, r, sent) ==
  /\ fetched_at' = r.rq.at
  /\ last_fetch' = LastFetchAfter(r.rq)
  /\ observed' = observed \cup Fetched(r.steam_ok, r.rq)
  /\ seen' = SeenAfter(steam, r.steam_ok, r.rq)
  /\ last' = [op |-> op, raised |-> r.raised, do_display |-> r.do_display,
              msg |-> r.msg, sent |-> sent, branch |-> r.rq.branch,
              requested |-> r.rq.requested,
              answers |-> Answers(r.rq, outcomes),
              since_fetch |-> IF r.rq.branch = "none" THEN -1 ELSE SinceFetch,
              age |-> AgeOf(r.rq),
              first_seen |-> Fetched(r.steam_ok, r.rq) \ observed,
              same_user |-> r.steam_ok /\ get_is_playing(steam) = seen.user,
              same_server |-> r.rq.branch # "none" /\ ~r.rq.raised
                              /\ r.rq.dict = seen.server,
              raw |-> IF r.steam_ok THEN steam ELSE NoOp.raw]

\* ------------------------------------------------ ubisoft_server_status.py
\* poller: the UbisoftServerStatusPoller and what its latest call did.
\*   made                 an instance exists
\*   print_on_first_run, last_seen_status     its attributes
\*   calls                the number of calls so far
\*   raised, prev, current    observer: the latest call's status_checker
\*                        raised; last_seen_status before it; the 'Status' got
\*   do_display, message  the latest call's result
\* No UbisoftServerStatusPoller exists (steam_status_bot.py does not make one).
NoPoller == [made |-> FALSE, print_on_first_run |-> FALSE,
             last_seen_status |-> None, calls |-> 0,
             raised |-> FALSE, prev |-> None, current |-> None,
             do_display |-> FALSE, message |-> <<>>]

\* 'Status' labels the checker can answer.
PollerStatuses == {"online", "interrupted", "degraded", "maintenance"}
\* What status_checker()['Status'] can do: answer a label, or raise.
CheckerOutcomes == PollerStatuses \cup {Fail}

\* Line 38.
ChangeMessage(old, current) ==
  <<"Server status change from", old, "to", current>>
\* Line 40.
FirstRunMessage(current) ==
  <<"Good morning! Server status this lovely day is:", current>>

\* UbisoftServerStatusPoller.__init__, lines 25-28.
Poller_init(print_on_first_run) ==
  [NoPoller EXCEPT !.made = TRUE, !.print_on_first_run = print_on_first_run]

\* Lines 35-40 with the first-run message whatever print_on_first_run is.
PollerMessage_first_always(p, current_status) ==
  IF p.last_seen_status # None
    THEN IF current_status # p.last_seen_status
           THEN ChangeMessage(p.last_seen_status, current_status)
           ELSE <<>>
    ELSE FirstRunMessage(current_status)

\* Lines 35-40: the message of a call that got current_status.
PollerMessage(p, current_status) ==
  IF p.last_seen_status # None
    THEN IF current_status # p.last_seen_status
           THEN ChangeMessage(p.last_seen_status, current_status)
           ELSE <<>>
    ELSE IF p.print_on_first_run
           THEN FirstRunMessage(current_status)
           ELSE <<>>

\* Lines 42-46 with the except clause forgetting the status.
PollerLastSeen_reset(p, outcome) ==
  IF outcome = Fail THEN None ELSE outcome

\* Lines 42-46: last_seen_status after a call; the except clause only logs.
PollerLastSeen(p, outcome) ==
  IF outcome = Fail THEN p.last_seen_status ELSE outcome

\* UbisoftServerStatusPoller.__call__, lines 30-48, the checker doing
\* `outcome`, on the poller p.
Poller_call(p, outcome) ==
  LET message == IF outcome = Fail THEN <<>> ELSE PollerMessage(p, outcome)
  IN [p EXCEPT !.last_seen_status = PollerLastSeen(p, outcome),
               !.calls = p.calls + 1,
               !.raised = (outcome = Fail),
               !.prev = p.last_seen_status,
               !.current = IF outcome = Fail THEN None ELSE outcome,
               !.do_display = Len(message) > 0,
               !.message = message]

\* ------------------------------------------------------------------ threads
\* configure_bot hands the command handlers to the Updater's dispatcher and
\* _callback_status to its job queue (lines 151-177): the dispatcher runs the
\* handlers on its thread, the job queue runs the job on another, one run
\* at a time.  No lock is taken anywhere in steam_status_bot.py.
\*   pc   "idle", or the line of run_query the thread is about to execute:
\*        "line335" the test, "line342" the request for game GameOrder[i],
\*        "line345" is_first_time = False, "line348" the return
Threads == {"job", "cmd"}
NoThreads == [t \in Threads |-> [pc |-> "idle", i |-> 0]]

\* The games of config['game_ids'] after the i-th that have an 'ubi_id'
\* (lines 337-339); 0 when there is none.
NextUbi(i) ==
  LET later == {j \in (i + 1)..Len(GameOrder) : HasUbiId(GameOrder[j])}
  IN IF later = {} THEN 0 ELSE CHOOSE j \in later : \A k \in later : j <= k

InRunQuery(t) == threads[t].pc # "idle"

\* The state of steam_status_bot.py in phase ph, before the initial calls.
BotState(ph) ==
  /\ phase = ph
  /\ now = 0
  /\ dicts = [r \in Refs |-> EmptyDict]
  /\ ubi_server_status = "d0"
  /\ last_update = 0
  /\ is_first_time = TRUE
  /\ user_status = AllNoPresence
  /\ bot_server_status = NoRef
  /\ fetched_at = [g \in Games |-> -1]
  /\ last_fetch = -1
  /\ observed = {}
  /\ seen = [user |-> AllNoPresence, server |-> EmptyDict]
  /\ last = NoOp
  /\ threads = NoThreads

\* The collaborators are constructed (lines 49-52); the initial calls follow.
Init ==
  /\ BotState("constructed")
  /\ poller = NoPoller

\* Time passes.
Elapse ==
  /\ phase \in {"constructed", "running", "finder"}
  /\ now + TimeStep <= MaxTime
  /\ now' = now + TimeStep
  /\ UNCHANGED <<phase, dicts, ubi_server_status, last_update, is_first_time,
                 user_status, bot_server_status, fetched_at, last_fetch,
                 observed, seen, last, poller, threads>>

\* TelegramBot.__init__, lines 54-57; an exception ends the process.
Startup ==
  /\ phase = "constructed"
  /\ \E steam \in SteamOutcomes, outcomes \in UbiOutcomes :
       \E r \in {TelegramBot_init(steam, outcomes)} :
       /\ phase' = IF r.raised = "none" THEN "running" ELSE "failed"
       /\ user_status' = r.user_status
       /\ dicts' = HeapAfter(r.rq)
       /\ is_first_time' = r.rq.first
       /\ bot_server_status' = r.server_status
       /\ Observe("init", steam, outcomes,
                  [r EXCEPT !.raised = r.raised] @@ [do_display |-> FALSE, msg |-> <<>>],
                  <<>>)
  /\ UNCHANGED <<now, ubi_server_status, last_update, poller, threads>>

\* One run of the repeating job _callback_status, lines 159-173.
callback_status ==
  /\ phase = "running"
  /\ \E steam \in SteamOutcomes, outcomes \in UbiOutcomes :
       \E r \in {define_job_queue(steam, outcomes)} :
       /\ user_status' = r.user_status
       /\ dicts' = HeapAfter(r.rq)
       /\ is_first_time' = r.rq.first
       /\ bot_server_status' = r.server_status
       /\ Observe("tick", steam, outcomes, r,
                  IF r.raised = "none" THEN SendOnTick(r.do_display, r.msg)
                                       ELSE <<>>)
  /\ UNCHANGED <<phase, now, ubi_server_status, last_update, poller,
                 threads>>

\* /player_status, lines 71-75.
handle_status ==
  /\ phase = "running"
  /\ \E steam \in SteamOutcomes, outcomes \in {[g \in UbiGames |-> Fail]} :
       LET raised == SteamRaises(steam)
           r == [raised |-> IF raised THEN "steam" ELSE "none",
                 steam_ok |-> FALSE, do_display |-> FALSE, msg |-> <<>>,
                 rq |-> NoQuery]
       IN Observe("player_status", steam, outcomes, r,
                  IF raised THEN <<>> ELSE <<get_status_string(steam)>>)
  /\ UNCHANGED <<phase, now, dicts, ubi_server_status, last_update,
                 is_first_time, user_status, bot_server_status, poller,
                 threads>>

\* /server_status, lines 77-81, through get_message, lines 350-354.
handle_server_status ==
  /\ phase = "running"
  /\ \E steam \in {[u \in Players |-> NoGameId]}, outcomes \in UbiOutcomes :
       \E rq \in {run_query(outcomes)} :
          /\ dicts' = HeapAfter(rq)
          /\ is_first_time' = rq.first
          /\ Observe("server_status", steam, outcomes,
                     [raised |-> IF rq.raised THEN "ubi" ELSE "none",
                      steam_ok |-> FALSE, do_display |-> FALSE, msg |-> <<>>,
                      rq |-> rq],
                     IF rq.raised THEN <<>>
                     ELSE <<MessageLines(1, HeapAfter(rq)[ubi_server_status])>>)
  /\ UNCHANGED <<phase, now, ubi_server_status, last_update, user_status,
                 bot_server_status, poller, threads>>

Next ==
  \/ Elapse
  \/ Startup
  \/ callback_status
  \/ handle_status
  \/ handle_server_status

Spec == Init /\ [][Next]_vars

\* ubisoft_server_status.py: a poller has been constructed (there is no bot).
PollerInit ==
  /\ BotState("absent")
  /\ \E print_on_first_run \in BOOLEAN :
       poller = Poller_init(print_on_first_run)

\* One call of the poller, as at line 71.
poller_call ==
  /\ poller.made
  /\ poller.calls < MaxCalls
  /\ \E outcome \in CheckerOutcomes : poller' = Poller_call(poller, outcome)
  /\ UNCHANGED <<phase, now, dicts, ubi_server_status, last_update,
                 is_first_time, user_status, bot_server_status, fetched_at,
                 last_fetch, observed, seen, last, threads>>

PollerNext == poller_call

PollerSpec == PollerInit /\ [][PollerNext]_vars

\* Either program.
AllInit == Init \/ PollerInit
AllNext == Next \/ PollerNext
AllSpec == AllInit /\ [][AllNext]_vars

\* A UbiServerStatusFinder on its own (lines 307-317), its run_query called
\* by a caller that goes on after an exception of the call.
FinderInit ==
  /\ BotState("finder")
  /\ poller = NoPoller

\* One call of run_query, lines 330-348.
finder_run_query ==
  /\ phase = "finder"
  /\ \E steam \in {[u \in Players |-> NoGameId]}, outcomes \in UbiOutcomes :
       \E rq \in {run_query(outcomes)} :
          /\ dicts' = HeapAfter(rq)
          /\ is_first_time' = rq.first
          /\ Observe("run_query", steam, outcomes,
                     [raised |-> IF rq.raised THEN "ubi" ELSE "none",
                      steam_ok |-> FALSE, do_display |-> FALSE, msg |-> <<>>,
                      rq |-> rq],
                     <<>>)
  /\ UNCHANGED <<phase, now, ubi_server_status, last_update, user_status,
                 bot_server_status, poller, threads>>

\* The bot, or the finder on its own.
FinderAllInit == Init \/ FinderInit
FinderNext == Next \/ finder_run_query
FinderSpec == FinderAllInit /\ [][FinderNext]_vars

\* ------------------------------------------------- the bot, by thread steps
\* The same bot with run_query taken line by line, so that the job's run and
\* a /server_status handler interleave as their threads allow.  The observers
\* of the atomic actions are not maintained here.
FinderFrame ==
  UNCHANGED <<phase, now, ubi_server_status, last_update, fetched_at,
              last_fetch, observed, seen, last, poller>>

\* The job thread starts a run: lines 115-126, up to the call of line 129.
\* (A get_is_playing that raises ends the run where it began.)
tick_enter ==
  /\ phase = "running"
  /\ ~InRunQuery("job")
  /\ \E steam \in SteamOutcomes :
       /\ ~SteamRaises(steam)
       /\ user_status' = get_is_playing(steam)
  /\ threads' = [threads EXCEPT !["job"] = [pc |-> "line335", i |-> 0]]
  /\ FinderFrame
  /\ UNCHANGED <<dicts, is_first_time, bot_server_status>>

\* The dispatcher thread starts handle_server_status: lines 78 and 351.
cmd_enter ==
  /\ phase = "running"
  /\ ~InRunQuery("cmd")
  /\ threads' = [threads EXCEPT !["cmd"] = [pc |-> "line335", i |-> 0]]
  /\ FinderFrame
  /\ UNCHANGED <<dicts, is_first_time, user_status, bot_server_status>>

\* Lines 332-335: the test.
rq_test ==
  \E t \in Threads :
    /\ threads[t].pc = "line335"
    /\ threads' = [threads EXCEPT ![t] =
         IF ShouldFetch(now - last_update)
           THEN IF NextUbi(0) = 0 THEN [pc |-> "line345", i |-> 0]
                ELSE [pc |-> "line342", i |-> NextUbi(0)]
           ELSE [pc |-> "line348", i |-> 0]]
    /\ FinderFrame
    /\ UNCHANGED <<dicts, is_first_time, user_status, bot_server_status>>

\* Lines 341-344: one request; an exception ends the run or the handler.
rq_request ==
  \E t \in Threads :
    /\ threads[t].pc = "line342"
    /\ LET game == GameOrder[threads[t].i] IN
       \E outcome \in Statuses \cup {Fail} :
         IF outcome = Fail
           THEN /\ threads' = [threads EXCEPT ![t] = [pc |-> "idle", i |-> 0]]
                /\ UNCHANGED dicts
           ELSE /\ dicts' = [dicts EXCEPT ![ubi_server_status][game] = outcome]
                /\ threads' = [threads EXCEPT ![t] =
                     IF NextUbi(threads[t].i) = 0
                       THEN [pc |-> "line345", i |-> 0]
                       ELSE [pc |-> "line342", i |-> NextUbi(threads[t].i)]]
    /\ FinderFrame
    /\ UNCHANGED <<is_first_time, user_status, bot_server_status>>

\* Line 345.
rq_finish ==
  \E t \in Threads :
    /\ threads[t].pc = "line345"
    /\ is_first_time' = FALSE
    /\ threads' = [threads EXCEPT ![t] = [pc |-> "line348", i |-> 0]]
    /\ FinderFrame
    /\ UNCHANGED <<dicts, user_status, bot_server_status>>

\* Line 348, and what the caller does with the dictionary it gets: the job
\* lines 130-138 (old_status is new_status, no line), the handler lines
\* 352-354 and 79-80.
rq_return ==
  \E t \in Threads :
    /\ threads[t].pc = "line348"
    /\ bot_server_status' =
         IF t = "job" THEN ubi_server_status ELSE bot_server_status
    /\ threads' = [threads EXCEPT ![t] = [pc |-> "idle", i |-> 0]]
    /\ FinderFrame
    /\ UNCHANGED <<dicts, is_first_time, user_status>>

ConcNext ==
  \/ Elapse
  \/ Startup
  \/ tick_enter
  \/ cmd_enter
  \/ rq_test
  \/ rq_request
  \/ rq_finish
  \/ rq_return

ConcSpec == Init /\ [][ConcNext]_vars

\* ------------------------------------------------------------------ claims
Interval == ubipoller_interv_min * 60

\* The step is one run of the repeating job (time stands still in a run).
TickStep == last'.op = "tick" /\ now' = now

AboutPlayer(line, user) == line[1] = user /\ line[3] = "playing"
AboutGame(line, game) == line[1] = "Servers for" /\ line[2] = game
HasPlayerLine(msg, user) == \E i \in 1..Len(msg) : AboutPlayer(msg[i], user)
HasGameLine(msg, game) == \E i \in 1..Len(msg) : AboutGame(msg[i], game)

\* C1 (health transition): in a tick that completes and whose run_query
\* really fetches, a game whose fetched label differs from the label the
\* previous fetch stored makes define_job_queue return do_display = True and
\* a message with the line 'Servers for <game> are <new status>.'.
C1_HealthTransition ==
  [][(TickStep /\ last'.raised = "none" /\ last'.branch = "fetch") =>
       \A g \in UbiGames :
         (dicts[ubi_server_status][g] # Absent
          /\ last'.answers[g] # dicts[ubi_server_status][g])
         => /\ last'.do_display
            /\ ServerLine(g, last'.answers[g]) \in Lines(last'.msg)]_vars

\* C2 (presence equality): in a tick that completes, a change line is
\* emitted for a player iff the new presence value differs from the baseline
\* value in is_pl or in game.
C2_PresenceEquality ==
  [][(TickStep /\ last'.raised = "none") =>
       \A u \in Players :
         HasPlayerLine(last'.msg, u) <=> (seen'.user[u] # user_status[u])]_vars

\* C3 (partial failure isolation): in a tick where one source's fetch raises,
\* the other source is still evaluated, and a change of the other source
\* that the fetch returned is in a message delivered for the tick.
C3_PartialFailureIsolation ==
  [][TickStep =>
       /\ last'.raised = "steam" => last'.branch # "none"
       /\ last'.raised = "ubi" =>
            \A u \in Players :
              UserChanged(user_status[u], seen'.user[u])
              => \E i \in 1..Len(last'.sent) : HasPlayerLine(last'.sent[i], u)]_vars

\* C4 (failed fetch leaves the baseline alone): a tick whose run_query raises
\* leaves every entry of server_status as it was, and a tick whose
\* get_is_playing raises leaves user_status as it was.
C4_FailedFetchKeepsBaseline ==
  [][TickStep =>
       /\ last'.raised = "ubi" =>
            dicts'[ubi_server_status] = dicts[ubi_server_status]
       /\ last'.raised = "steam" => user_status' = user_status]_vars

\* C5 (monotonic throttling): a run_query called less than the minimum
\* interval after the latest completed fetch performs no fetch.
C5_MonotonicThrottling ==
  (last.since_fetch >= 0 /\ last.since_fetch < Interval)
  => last.branch # "fetch"

\* C6 (first call fetches): the first run_query of a new finder, the one of
\* __init__, takes the fetch branch whatever time has passed since the
\* construction; when it completes it has requested every game with a ubi_id,
\* and the dictionary it returns holds exactly the labels the API answered.
C6_FirstCallFetches ==
  (last.op = "init" /\ last.raised # "steam") =>
    /\ last.branch = "fetch"
    /\ last.raised = "none" =>
         /\ last.requested = UbiGames
         /\ bot_server_status = ubi_server_status
         /\ Keys(dicts[bot_server_status]) = UbiGames
         /\ \A g \in UbiGames : dicts[bot_server_status][g] = last.answers[g]

\* C6 witness: __init__ completed with no time passed since construction.
C6_Witness ==
  /\ last.op = "init" /\ last.raised = "none"
  /\ last.branch = "fetch" /\ last_fetch = last_update

\* C7 (throttle freshness): a dictionary that run_query returns from the
\* cached branch has no entry fetched more than the minimum interval before.
C7_ThrottleFreshness ==
  last.branch = "cached" => (last.age >= 0 /\ last.age <= Interval)

\* C7 witness: a tick took the cached branch and got entries exactly one
\* interval old.
C7_Witness ==
  last.op = "tick" /\ last.branch = "cached" /\ last.age = Interval

\* C8 (idempotence): a tick that gets the same presence snapshot as the
\* previous tick emits no player line, one that gets the same server
\* snapshot emits no server line, and one that gets both returns
\* do_display = False (and sends nothing).
C8_Idempotence ==
  (last.op = "tick" /\ last.raised = "none") =>
    /\ last.same_user => \A u \in Players : ~HasPlayerLine(last.msg, u)
    /\ last.same_server => \A g \in Games : ~HasGameLine(last.msg, g)
    /\ (last.same_user /\ last.same_server) =>
         (~last.do_display /\ last.sent = <<>>)

\* C8 witness: a completed tick that got the snapshots of the tick before,
\* with somebody playing.
C8_Witness ==
  /\ last.op = "tick" /\ last.raised = "none"
  /\ last.same_user /\ last.same_server
  /\ \E u \in Players : user_status[u].is_pl

\* C9 (seeding): __init__ fetches both baselines whatever time has passed,
\* sets user_status and server_status to what it fetched and sends nothing;
\* it is the first observation of every entity, and no operation emits a
\* line about an entity it observes for the first time.  So in the first
\* tick after __init__ a player whose presence is what it was at startup
\* (playing already, say) gets no line.
C9_Seeded ==
  /\ (last.op = "init" /\ last.raised = "none") =>
       /\ last.sent = <<>> /\ ~last.do_display /\ last.msg = <<>>
       /\ last.branch = "fetch"
       /\ last.first_seen = Entities
       /\ user_status = seen.user
       /\ dicts[bot_server_status] = seen.server
  /\ phase = "running" => observed = Entities
  /\ \A i \in 1..Len(last.msg) :
       \A e \in last.first_seen :
         ~AboutPlayer(last.msg[i], e) /\ ~AboutGame(last.msg[i], e)

C9_Seeding ==
  /\ []C9_Seeded
  /\ [][(last.op = "init" /\ TickStep /\ last'.raised = "none") =>
          \A u \in Players :
            seen'.user[u] = seen.user[u] => ~HasPlayerLine(last'.msg, u)]_vars

\* C9 witness: __init__ completed with a player already playing.
C9_Witness ==
  /\ last.op = "init" /\ last.raised = "none"
  /\ user_status["alice"] = [is_pl |-> TRUE, game |-> "r6"]

\* C10 (one delivery per tick): a tick calls send_message once if
\* define_job_queue returned do_display = True and not at all otherwise; the
\* text sent is define_job_queue's message and is never empty, and
\* do_display is True exactly when the message is not empty.
C10_OneDeliveryPerTick ==
  last.op = "tick" =>
    /\ Len(last.sent) = IF last.raised = "none" /\ last.do_display THEN 1 ELSE 0
    /\ last.do_display <=> (last.msg # <<>>)
    /\ \A i \in 1..Len(last.sent) :
         last.sent[i] = last.msg /\ last.sent[i] # <<>>

\* C10 witness: a tick sent a message.
C10_Witness == last.op = "tick" /\ Len(last.sent) = 1

\* C11 (flag iff message): define_job_queue, when it completes, returns
\* do_display = True iff its message has at least one line, and a call of the
\* poller returns True iff its message is not empty.
C11_FlagIffMessage ==
  /\ (last.op = "tick" /\ last.raised = "none") =>
       (last.do_display <=> Len(last.msg) > 0)
  /\ (poller.made /\ poller.calls > 0) =>
       (poller.do_display <=> poller.message # <<>>)

\* C11 witness: a tick returned True with a line for each player.
C11_Witness ==
  /\ last.op = "tick" /\ last.raised = "none"
  /\ last.do_display /\ Len(last.msg) = 2

\* C19 (poller error handling): a call whose status checker raises returns
\* (False, '') and leaves last_seen_status as it was.
C19_PollerErrorHandling ==
  (poller.made /\ poller.calls > 0 /\ poller.raised) =>
    /\ ~poller.do_display
    /\ poller.message = <<>>
    /\ poller.last_seen_status = poller.prev

\* C19 witness: the checker raised after a status had been seen.
C19_Witness ==
  poller.made /\ poller.raised /\ poller.last_seen_status # None

\* C20 (poller on success): a call whose checker answers emits a message iff
\* last_seen_status was set and differs from the answer, or was None with
\* print_on_first_run; with print_on_first_run false the first successful
\* call returns (False, ''); afterwards last_seen_status is the answer.
C20_PollerOnSuccess ==
  (poller.made /\ poller.calls > 0 /\ ~poller.raised) =>
    /\ poller.do_display <=>
         \/ (poller.prev # None /\ poller.prev # poller.current)
         \/ (poller.prev = None /\ poller.print_on_first_run)
    /\ poller.do_display <=> (poller.message # <<>>)
    /\ (~poller.print_on_first_run /\ poller.prev = None) =>
         (~poller.do_display /\ poller.message = <<>>)
    /\ poller.last_seen_status = poller.current
    /\ poller.current \in PollerStatuses

\* C20 witness: with print_on_first_run false, the first successful call
\* came after a call that raised.
C20_Witness ==
  /\ poller.made /\ ~poller.print_on_first_run
  /\ poller.calls > 1 /\ ~poller.raised /\ poller.prev = None

\* C12 (playing-state normalisation): when get_is_playing returns, a player
\* whose summary has no gameid, or a gameid that is not a configured
\* steam_id, is stored as {is_pl: False, game: None}; a player with a tracked
\* gameid as {is_pl: True, game: that game's name}; an untracked gameid does
\* not make the call raise.
C12_Normalisation ==
  (last.op \in {"init", "tick"} /\ last.raised # "steam") =>
    \A user \in Players :
      LET tracked == {g \in Games : steam_id[g] = last.raw[user]} IN
      /\ tracked = {} =>
           user_status[user] = [is_pl |-> FALSE, game |-> None]
      /\ \A g \in tracked :
           user_status[user] = [is_pl |-> TRUE, game |-> g]

\* C12 witness: a tick got one player in an untracked game and another in a
\* tracked one.
C12_Witness ==
  /\ last.op = "tick" /\ last.raised = "none"
  /\ \E user \in Players :
       last.raw[user] # NoGameId /\ last.raw[user] \notin DOMAIN game_ids
  /\ \E user \in Players : last.raw[user] \in DOMAIN game_ids

\* C16 (cached branch has no side effect): a run_query that takes the cached
\* branch leaves server_status, _last_update and is_first_time as they were
\* and issues no request.
C16_CachedNoSideEffect ==
  [][(last'.branch = "cached" /\ now' = now) =>
       /\ dicts'[ubi_server_status'] = dicts[ubi_server_status]
       /\ ubi_server_status' = ubi_server_status
       /\ last_update' = last_update
       /\ is_first_time' = is_first_time
       /\ last'.requested = {}
       /\ fetched_at' = fetched_at]_vars

\* C16 witness: /server_status was answered from the cached dictionary.
C16_Witness ==
  /\ last.op = "server_status" /\ last.branch = "cached"
  /\ last.raised = "none" /\ ~is_first_time

\* C17 (command handlers keep the baselines): handling /player_status or
\* /server_status leaves TelegramBot.user_status and TelegramBot.server_status
\* holding the values they held before.
C17_HandlersKeepBaselines ==
  [][(last'.op \in {"player_status", "server_status"} /\ now' = now) =>
       /\ user_status' = user_status
       /\ bot_server_status' = bot_server_status
       /\ dicts'[bot_server_status'] = dicts[bot_server_status]]_vars

C13_NoOverlap ==
  ~(InRunQuery("job") /\ InRunQuery("cmd"))

\* C21 (is_first_time lifecycle): is_first_time is true from construction
\* until the first fetch pass of run_query completes without raising, false
\* in every state after that, and while it is true every run_query call
\* requests the statuses whatever time has elapsed, so that a first fetch
\* that failed is tried again by the next call.
C21_FirstTimeLifecycle ==
  /\ [](is_first_time <=> last_fetch < 0)
  /\ [][~is_first_time => ~is_first_time']_vars
  /\ [][(is_first_time /\ last' # last /\ last'.branch # "none") =>
          /\ last'.branch = "fetch"
          /\ last'.requested # {}
          /\ is_first_time' = (last'.raised # "none")]_vars

\* C21 witness: within the interval, a run_query completed the first fetch
\* pass after an earlier call had raised part-way.
C21_Witness ==
  /\ last.op = "run_query" /\ last.raised = "none" /\ last.branch = "fetch"
  /\ now <= Interval /\ now > 0
  /\ last.since_fetch = -1
  /\ \E game \in last.requested : game \notin last.first_seen
  /\ ~is_first_time

====
